---- MODULE Spec2Model ----
(***************************************************************************)
(* Model of src/bot.py: the Flask endpoint GET /jass_keys (get_keys) and   *)
(* its helper fetch_pssh_data.  Each request is a thread that walks the    *)
(* handler line by line; the CDM, the metadata service and the license     *)
(* server are the environment and may fail at every call.                  *)
(***************************************************************************)
EXTENDS Integers, Sequences, FiniteSets, TLC

(* ---------------------------- bounds ----------------------------------- *)
NumReq == 2       \* requests the server handles (threads of the Flask app)
MaxKeys == 2      \* longest key list the CDM returns from get_keys

\* lines 27 and 89: timeout=10
TIMEOUT == 10

Reqs == 1..NumReq

(* ------------------------ strings and bytes ---------------------------- *)
HexDigits == <<"0","1","2","3","4","5","6","7","8","9","a","b","c","d","e","f">>

\* bytes.hex() for one byte: two lowercase digits
HexByte(b) == <<HexDigits[(b \div 16) + 1], HexDigits[(b % 16) + 1]>>

RECURSIVE BytesHex(_)
\* bytes.hex(): the digits of every byte, in order
BytesHex(bs) == IF bs = <<>> THEN <<>> ELSE HexByte(Head(bs)) \o BytesHex(Tail(bs))

\* str.replace("-", "")
RemoveDash(s) == SelectSeq(s, LAMBDA c : c # "-")

(* A kid or key field as the CDM hands it over: either a bytes object or   *)
(* any other object, which the handler turns into text with str().         *)
Bin(bs) == [isBytes |-> TRUE, bytes |-> bs, text |-> <<>>]
Txt(cs) == [isBytes |-> FALSE, bytes |-> <<>>, text |-> cs]

\* line 100: key.kid.hex().replace("-", "") if bytes else str(key.kid).replace("-", "")
KidHex(kid) == IF kid.isBytes THEN RemoveDash(BytesHex(kid.bytes)) ELSE RemoveDash(kid.text)

\* line 101: key.key.hex() if bytes else str(key.key)
KeyHex(key) == IF key.isBytes THEN BytesHex(key.bytes) ELSE key.text

IsSigning_CaseSlip(type) == type = "signing"
\* line 98: key.type == "SIGNING"
IsSigning(type) == type = "SIGNING"

\* lines 98-102: one iteration of the loop over cdm.get_keys(session_id)
LoopBody(keys, key) ==
    IF IsSigning(key.type) THEN keys
    ELSE Append(keys, [type |-> key.type, kid |-> KidHex(key.kid), key |-> KeyHex(key.key)])

(* ------------------------ the environment's values --------------------- *)
KeyTypes == {"CONTENT", "SIGNING"}
KidValues == {Bin(<<171, 10>>), Txt(<<"a","1","-","b","2">>)}
KeyValues == {Bin(<<10>>), Txt(<<"1","a","-","2","b">>)}
KeyEntries == [type : KeyTypes, kid : KidValues, key : KeyValues]
BinaryEntries == {e \in KeyEntries : e.kid.isBytes /\ e.key.isBytes}

SeqsUpTo(S, n) == UNION {[1..k -> S] : k \in 0..n}

\* request.args.get("id"): "None" when the parameter is absent
IdParams == {"None", "", "42"}

\* the provisioning file on disk
FileStates == {"absent", "malformed", "ok"}

\* values of a JSON field of the metadata body ("None": the field is absent)
PsshFields == {"None", "", "AAAAIHBzc2g=", "zz"}
UrlFields == {"None", "", "https://license.example/acquire"}

\* what requests.get(url, params, timeout=10) can come back with
MetaReplies ==
    {[net |-> "unreachable", status |-> 0, json |-> FALSE, pssh |-> "None", wvlicence |-> "None"],
     [net |-> "ok", status |-> 500, json |-> FALSE, pssh |-> "None", wvlicence |-> "None"],
     [net |-> "ok", status |-> 200, json |-> FALSE, pssh |-> "None", wvlicence |-> "None"]}
    \cup {[net |-> "ok", status |-> 200, json |-> TRUE, pssh |-> p, wvlicence |-> u] :
             p \in PsshFields, u \in UrlFields}
NoReply == [net |-> "none", status |-> 0, json |-> FALSE, pssh |-> "None", wvlicence |-> "None"]

\* what requests.post(license_url, data=challenge, timeout=10) can come back with
\* the two peers the handler talks to over the network
Peers == {"metadata", "license"}

TimedOut_Never(waited) == FALSE
\* lines 27 and 89: timeout=10 ends a call whose peer has been silent that long
TimedOut(waited) == waited >= TIMEOUT

LicenseReplies == {[net |-> "unreachable", status |-> 0], [net |-> "ok", status |-> 403],
                   [net |-> "ok", status |-> 200]}

(* ------------------------------ responses ------------------------------ *)
NoResponse == [status |-> 0, error |-> "", hasKeys |-> FALSE, keys |-> <<>>]
\* jsonify({"error": msg}), status
ErrorResponse(msg, status) == [status |-> status, error |-> msg, hasKeys |-> FALSE, keys |-> <<>>]
\* line 105: jsonify({"keys": keys}), status 200 by default
KeysResponse(keys) == [status |-> 200, error |-> "", hasKeys |-> TRUE, keys |-> keys]

(* exceptions: the class decides the except clause, the text is str(e) *)
RequestException(msg) == [cls |-> "RequestException", msg |-> msg]
ValueError(msg) == [cls |-> "ValueError", msg |-> msg]
OtherException(msg) == [cls |-> "Exception", msg |-> msg]

MissingId_NoneOnly(id_param) == id_param = "None"
\* line 56: not id_param
MissingId(id_param) == id_param \in {"None", ""}

\* line 62: os.path.isfile(FILE_PATH)
IsFile(fs) == fs # "absent"

IncompleteRecord_PsshOnly(pssh_value, license_url) == pssh_value \in {"None", ""}
IncompleteRecord_UrlOnly(pssh_value, license_url) == license_url \in {"None", ""}
\* line 39: not pssh_value or not license_url
IncompleteRecord(pssh_value, license_url) ==
    pssh_value \in {"None", ""} \/ license_url \in {"None", ""}

\* line 83: PSSH(pssh_value) accepts a base64 protection header only
ValidPssh(pssh_value) == pssh_value = "AAAAIHBzc2g="

\* lines 26-47: fetch_pssh_data, from the reply of requests.get to its result:
\* the exception it raises, or "return" with the data
FetchResult(reply) ==
    IF reply.net = "unreachable" THEN RequestException("ConnectionError")
    ELSE IF reply.status # 200 THEN RequestException("HTTPError")
    ELSE IF ~reply.json THEN ValueError("API response is not valid JSON")
    ELSE IF IncompleteRecord(reply.pssh, reply.wvlicence)
         THEN ValueError("Invalid response: Missing PSSH or license URL")
    ELSE [cls |-> "return", msg |-> ""]

ExceptResponse_Partial(l, exc) ==
    IF l.keys # <<>> THEN KeysResponse(l.keys) ELSE ErrorResponse(exc.msg, 500)
ExceptResponse_Leak(l, exc) ==
    IF exc.cls = "RequestException"
    THEN ErrorResponse(IF l.challenge <= 1 THEN "Network request failed"
                       ELSE "Network request failed for challenge 02", 500)
    ELSE ErrorResponse(exc.msg, 500)
ExceptResponse_Status(l, exc) ==
    IF exc.cls = "ValueError" THEN ErrorResponse(exc.msg, 400)
    ELSE IF exc.cls = "RequestException" THEN ErrorResponse("Network request failed", 500)
    ELSE ErrorResponse(exc.msg, 500)
\* lines 107-113: the two except clauses of get_keys, l being the locals
ExceptResponse(l, exc) ==
    IF exc.cls = "RequestException" THEN ErrorResponse("Network request failed", 500)
    ELSE ErrorResponse(exc.msg, 500)

ShouldClose_OnSuccess(l) == l.has_cdm /\ l.has_session_id /\ l.ret.status = 200
ShouldClose_Always(l) == TRUE
ShouldClose_CdmOnly(l) == l.has_cdm
\* line 117: 'cdm' in locals() and 'session_id' in locals()
ShouldClose(l) == l.has_cdm /\ l.has_session_id

FinallyResult_Masked(ret, closeOk) ==
    IF closeOk THEN ret ELSE ErrorResponse("Failed to close CDM session", 500)
\* lines 115-121: the value the handler returns once the finally block has run
FinallyResult(ret, closeOk) == ret

(* -------------------------------- state -------------------------------- *)
VARIABLES
    fileState,  \* the provisioning file at FILE_PATH
    clients,    \* the requests that are sent to the server
    cdmKeys,    \* the key list the CDM holds once the license is parsed
    pc,         \* pc[r]: where request r is in get_keys
    loc,        \* loc[r]: the local variables of get_keys for request r
    sess,       \* sess[r]: state of the CDM session of the Cdm object of r
    calls,      \* calls[r]: the CDM and network calls r has made, in order
    fault,      \* fault[r]: the step of r that failed, "none" so far
    closeRes,   \* closeRes[r]: how cdm.close(session_id) ended for r
    resp,       \* resp[r]: the response returned to the client
    silentPeers,\* the peers that accept a request and never answer
    waited,     \* waited[r]: time r has spent in a call to a silent peer
    uses,       \* the CDM calls and license posts made, with object and data
    flaky       \* the CDM calls that can fail

vars == <<fileState, clients, cdmKeys, pc, loc, sess, calls, fault, closeRes, resp,
          silentPeers, waited, uses, flaky>>

InitLocals ==
    [id_param |-> "None", has_cdm |-> FALSE, has_session_id |-> FALSE,
     cdm |-> 0, session_id |-> 0,
     response |-> NoReply, pssh_value |-> "None", license_url |-> "None",
     challenge |-> 0, license |-> 0, i |-> 0, keys |-> <<>>, ret |-> NoResponse]

InitWith(files, cl, keyLists, failureSets) ==
    /\ fileState \in files
    /\ clients = cl
    /\ cdmKeys \in keyLists
    /\ pc = [r \in Reqs |-> "start"]
    /\ loc = [r \in Reqs |-> InitLocals]
    /\ sess = [r \in Reqs |-> "none"]
    /\ calls = [r \in Reqs |-> <<>>]
    /\ fault = [r \in Reqs |-> "none"]
    /\ closeRes = [r \in Reqs |-> "none"]
    /\ resp = [r \in Reqs |-> NoResponse]
    /\ silentPeers \in SUBSET Peers
    /\ waited = [r \in Reqs |-> 0]
    /\ uses = {}
    /\ flaky \in failureSets

\* the CDM calls of the handler, each of which can raise
CdmCalls == {"from_device", "open", "get_license_challenge", "parse_license", "get_keys",
             "next_key", "close"}

\* one request; any provisioning file, key material of every shape, a CDM
\* whose every call can fail
Init == InitWith(FileStates, {1}, SeqsUpTo(KeyEntries, MaxKeys), {CdmCalls})

\* concurrent requests against a loadable provisioning file and a CDM
\* that returns one CONTENT and one SIGNING key and either never fails or
\* can fail in parse_license and while the keys are enumerated
InitConc ==
    InitWith({"ok"}, Reqs,
             {<<[type |-> "CONTENT", kid |-> Bin(<<171, 10>>), key |-> Bin(<<10>>)],
                [type |-> "SIGNING", kid |-> Bin(<<171, 10>>), key |-> Bin(<<10>>)]>>},
             {{}, {"parse_license", "next_key"}})

env == <<fileState, clients, cdmKeys, silentPeers, flaky>>

\* how a CDM call can end: TRUE it returns, FALSE it raises
Outcomes(call) == IF call \in flaky THEN BOOLEAN ELSE {TRUE}

\* a reply the blocked call can return with: a silent peer leaves only the
\* timeout, which requests reports as a RequestException
ReplyReady(peer, reply, w) ==
    peer \in silentPeers => (reply.net = "unreachable" /\ TimedOut(w))

Call(r, op) == calls' = [calls EXCEPT ![r] = Append(@, op)]

\* how often op occurs in a sequence of calls
Count(seq, op) == Cardinality({k \in 1..Len(seq) : seq[k] = op})

\* request r invokes op on Cdm object c with session handle sid and payload data
Use(r, op, c, sid, data) ==
    uses' = uses \cup {[op |-> op, by |-> r, cdm |-> c, sid |-> sid, data |-> data]}

NewCdm_Shared(r) == 1
\* line 74: Cdm.from_device(device) builds a new Cdm object for the request
NewCdm(r) == r

\* line 75: cdm.open() returns a handle no other open has returned
NewSession(r) == r

NewKeyList_Stale(r) == IF r > 1 THEN loc[r - 1].keys ELSE <<>>
\* line 96: keys = [], a list of this call of get_keys
NewKeyList(r) == <<>>

Raise_Retry(r, l, exc, step) ==
    IF step \in {"open", "metadata", "challenge", "license", "parse"} /\ Len(calls[r]) < 8
    THEN /\ loc' = [loc EXCEPT ![r] = l]
         /\ UNCHANGED <<pc, fault>>
    ELSE /\ loc' = [loc EXCEPT ![r] = [l EXCEPT !.ret = ExceptResponse(l, exc)]]
         /\ pc' = [pc EXCEPT ![r] = "finally"]
         /\ fault' = [fault EXCEPT ![r] = step]
Raise_Continue(r, l, exc, step) ==
    /\ loc' = [loc EXCEPT ![r] = [l EXCEPT !.ret = ExceptResponse(l, exc)]]
    /\ pc' = [pc EXCEPT ![r] = IF step = "license" THEN "parse" ELSE "finally"]
    /\ fault' = [fault EXCEPT ![r] = step]
\* an exception leaves the try block: the except clause builds the
\* response and control goes to the finally block
Raise(r, l, exc, step) ==
    /\ loc' = [loc EXCEPT ![r] = [l EXCEPT !.ret = ExceptResponse(l, exc)]]
    /\ pc' = [pc EXCEPT ![r] = "finally"]
    /\ fault' = [fault EXCEPT ![r] = step]

Goto_SkipParse(r, l, label) ==
    /\ loc' = [loc EXCEPT ![r] = l]
    /\ pc' = [pc EXCEPT ![r] = IF label = "parse" THEN "get_keys" ELSE label]
    /\ UNCHANGED fault
\* the statement completes and control moves on to the next one
Goto(r, l, label) ==
    /\ loc' = [loc EXCEPT ![r] = l]
    /\ pc' = [pc EXCEPT ![r] = label]
    /\ UNCHANGED fault

(* ------------------------------- get_keys ------------------------------ *)
\* lines 52-59: read the parameters, reject a missing id
Start(r) ==
    /\ pc[r] = "start" /\ r \in clients
    /\ \E id \in IdParams :
         IF MissingId(id)
         THEN /\ resp' = [resp EXCEPT ![r] = ErrorResponse("ID parameter is required", 400)]
              /\ loc' = [loc EXCEPT ![r].id_param = id]
              /\ pc' = [pc EXCEPT ![r] = "done"]
              /\ fault' = [fault EXCEPT ![r] = "id"]
         ELSE /\ loc' = [loc EXCEPT ![r].id_param = id]
              /\ pc' = [pc EXCEPT ![r] = "isfile"]
              /\ UNCHANGED <<resp, fault>>
    /\ UNCHANGED <<env, waited, uses, sess, calls, closeRes>>

\* lines 62-65: the provisioning file must exist
CheckFile(r) ==
    /\ pc[r] = "isfile"
    /\ IF IsFile(fileState)
       THEN Goto(r, loc[r], "load")
       ELSE /\ loc' = [loc EXCEPT ![r].ret = ErrorResponse("Provisioning file not found", 500)]
            /\ pc' = [pc EXCEPT ![r] = "finally"]
            /\ fault' = [fault EXCEPT ![r] = "isfile"]
    /\ UNCHANGED <<env, waited, uses, sess, calls, closeRes, resp>>

\* lines 67-72: Device.load(FILE_PATH)
LoadDevice(r) ==
    /\ pc[r] = "load"
    /\ Call(r, "device_load")
    /\ IF fileState = "ok"
       THEN Goto(r, loc[r], "from_device")
       ELSE /\ loc' = [loc EXCEPT ![r].ret =
                         ErrorResponse("Failed to load device file: invalid device", 500)]
            /\ pc' = [pc EXCEPT ![r] = "finally"]
            /\ fault' = [fault EXCEPT ![r] = "device_load"]
    /\ UNCHANGED <<env, waited, uses, sess, closeRes, resp>>

\* line 74: cdm = Cdm.from_device(device)
FromDevice(r) ==
    /\ pc[r] = "from_device"
    /\ Call(r, "from_device")
    /\ \E ok \in Outcomes("from_device") :
         IF ok THEN /\ Goto(r, [loc[r] EXCEPT !.has_cdm = TRUE, !.cdm = NewCdm(r)], "open")
                    /\ Use(r, "from_device", NewCdm(r), 0, 0)
         ELSE /\ Raise(r, loc[r], OtherException("from_device failed"), "from_device")
              /\ UNCHANGED uses
    /\ UNCHANGED <<env, waited, sess, closeRes, resp>>

\* lines 75-76: session_id = cdm.open()
Open(r) ==
    /\ pc[r] = "open"
    /\ Call(r, "open")
    /\ \E ok \in Outcomes("open") :
         IF ok THEN /\ Goto(r, [loc[r] EXCEPT !.has_session_id = TRUE,
                                              !.session_id = NewSession(r)], "fetch")
                    /\ sess' = [sess EXCEPT ![NewSession(r)] = "Opened"]
                    /\ Use(r, "open", loc[r].cdm, NewSession(r), 0)
         ELSE /\ Raise(r, loc[r], OtherException("open failed"), "open")
              /\ Use(r, "open", loc[r].cdm, 0, 0)
              /\ UNCHANGED sess
    /\ UNCHANGED <<env, waited, closeRes, resp>>

\* lines 79-81 with fetch_pssh_data, lines 20-47
FetchPsshData(r) ==
    /\ pc[r] = "fetch"
    /\ Call(r, "metadata_get")
    /\ \E reply \in MetaReplies :
         /\ ReplyReady("metadata", reply, waited[r])
         /\ waited' = [waited EXCEPT ![r] = IF reply.net = "unreachable" THEN @ ELSE 0]
         /\ LET l == [loc[r] EXCEPT !.response = reply]
                res == FetchResult(reply)
            IN IF res.cls = "return"
               THEN Goto(r, [l EXCEPT !.pssh_value = reply.pssh,
                                      !.license_url = reply.wvlicence], "pssh")
               ELSE Raise(r, l, res, "metadata")
    /\ UNCHANGED <<env, uses, sess, closeRes, resp>>

\* line 83: pssh = PSSH(pssh_value)
DecodePssh(r) ==
    /\ pc[r] = "pssh"
    /\ IF ValidPssh(loc[r].pssh_value)
       THEN Goto(r, loc[r], "challenge")
       ELSE Raise(r, loc[r], OtherException("Could not parse data as a PSSH box"), "pssh")
    /\ UNCHANGED <<env, waited, uses, sess, calls, closeRes, resp>>

\* lines 84-85: challenge = cdm.get_license_challenge(session_id, pssh)
GetLicenseChallenge(r) ==
    /\ pc[r] = "challenge"
    /\ Call(r, "get_license_challenge")
    /\ \E ok \in Outcomes("get_license_challenge") :
         IF ok THEN /\ Goto(r, [loc[r] EXCEPT !.challenge = loc[r].session_id], "post")
                    /\ sess' = [sess EXCEPT ![loc[r].session_id] = "ChallengeIssued"]
                    /\ Use(r, "get_license_challenge", loc[r].cdm, loc[r].session_id,
                           loc[r].session_id)
         ELSE /\ Raise(r, loc[r], OtherException("challenge failed"), "challenge")
              /\ Use(r, "get_license_challenge", loc[r].cdm, loc[r].session_id, 0)
              /\ UNCHANGED sess
    /\ UNCHANGED <<env, waited, closeRes, resp>>

\* lines 87-91: requests.post(license_url, data=challenge, ...); raise_for_status()
PostChallenge(r) ==
    /\ pc[r] = "post"
    /\ Call(r, "license_post")
    /\ \E reply \in LicenseReplies :
         /\ ReplyReady("license", reply, waited[r])
         /\ waited' = [waited EXCEPT ![r] = IF reply.net = "unreachable" THEN @ ELSE 0]
         /\ IF reply.net = "unreachable"
            THEN Raise(r, loc[r], RequestException("ConnectionError"), "license")
            ELSE IF reply.status # 200
            THEN Raise(r, loc[r], RequestException("HTTPError"), "license")
            ELSE Goto(r, [loc[r] EXCEPT !.license = loc[r].challenge], "parse")
    /\ Use(r, "license_post", 0, 0, loc[r].challenge)
    /\ UNCHANGED <<env, sess, closeRes, resp>>

\* lines 93-94: cdm.parse_license(session_id, license_response.content)
ParseLicense(r) ==
    /\ pc[r] = "parse"
    /\ Call(r, "parse_license")
    /\ \E ok \in Outcomes("parse_license") :
         IF ok THEN /\ Goto(r, loc[r], "get_keys")
                    /\ sess' = [sess EXCEPT ![loc[r].session_id] = "LicenseParsed"]
         ELSE /\ Raise(r, loc[r], OtherException("parse_license failed"), "parse")
              /\ UNCHANGED sess
    /\ Use(r, "parse_license", loc[r].cdm, loc[r].session_id, loc[r].license)
    /\ UNCHANGED <<env, waited, closeRes, resp>>

\* lines 96-97: keys = []; the call cdm.get_keys(session_id)
GetKeys(r) ==
    /\ pc[r] = "get_keys"
    /\ Call(r, "get_keys")
    /\ \E ok \in Outcomes("get_keys") :
         IF ok THEN Goto(r, [loc[r] EXCEPT !.keys = NewKeyList(r), !.i = 1], "loop")
         ELSE Raise(r, [loc[r] EXCEPT !.keys = NewKeyList(r)],
                    OtherException("get_keys failed"), "enumerate")
    /\ Use(r, "get_keys", loc[r].cdm, loc[r].session_id, 0)
    /\ UNCHANGED <<env, waited, sess, closeRes, resp>>

\* lines 97-102: one more entry of the key sequence, or the sequence fails
KeyLoop(r) ==
    /\ pc[r] = "loop"
    /\ loc[r].i <= Len(cdmKeys)
    /\ \E ok \in Outcomes("next_key") :
         IF ok THEN Goto(r, [loc[r] EXCEPT !.keys = LoopBody(@, cdmKeys[loc[r].i]),
                                           !.i = @ + 1], "loop")
         ELSE Raise(r, loc[r], OtherException("key enumeration failed"), "enumerate")
    /\ UNCHANGED <<env, waited, uses, sess, calls, closeRes, resp>>

\* lines 104-105: the sequence is exhausted, return jsonify({"keys": keys})
ReturnKeys(r) ==
    /\ pc[r] = "loop"
    /\ loc[r].i > Len(cdmKeys)
    /\ loc' = [loc EXCEPT ![r].ret = KeysResponse(loc[r].keys)]
    /\ pc' = [pc EXCEPT ![r] = "finally"]
    /\ UNCHANGED <<env, waited, uses, sess, calls, fault, closeRes, resp>>

\* lines 115-121: the finally block; a failing close is logged only
Finally(r) ==
    /\ pc[r] = "finally"
    /\ IF ShouldClose(loc[r])
       THEN /\ Call(r, "close")
            /\ Use(r, "close", loc[r].cdm, loc[r].session_id, 0)
            /\ \E ok \in Outcomes("close") :
                 /\ closeRes' = [closeRes EXCEPT ![r] = IF ok THEN "ok" ELSE "failed"]
                 /\ sess' = [sess EXCEPT ![loc[r].session_id] = IF ok THEN "Closed" ELSE @]
                 /\ loc' = [loc EXCEPT ![r].ret = FinallyResult(@, ok)]
       ELSE UNCHANGED <<calls, closeRes, sess, loc, uses>>
    /\ pc' = [pc EXCEPT ![r] = "return"]
    /\ UNCHANGED <<env, waited, fault, resp>>

\* the pending return value of the try statement reaches the client
Respond(r) ==
    /\ pc[r] = "return"
    /\ resp' = [resp EXCEPT ![r] = loc[r].ret]
    /\ pc' = [pc EXCEPT ![r] = "done"]
    /\ UNCHANGED <<env, waited, uses, loc, sess, calls, fault, closeRes>>

\* lines 27 and 89: a time unit passes in a call whose peer does not answer
Wait(r) ==
    /\ \/ pc[r] = "fetch" /\ "metadata" \in silentPeers
       \/ pc[r] = "post" /\ "license" \in silentPeers
    /\ waited[r] < TIMEOUT
    /\ waited' = [waited EXCEPT ![r] = @ + 1]
    /\ UNCHANGED <<env, uses, pc, loc, sess, calls, fault, closeRes, resp>>

\* the steps of the thread that serves request r
Step(r) ==
        \/ Start(r) \/ CheckFile(r) \/ LoadDevice(r) \/ FromDevice(r) \/ Open(r)
        \/ FetchPsshData(r) \/ DecodePssh(r) \/ GetLicenseChallenge(r)
        \/ PostChallenge(r) \/ ParseLicense(r) \/ GetKeys(r) \/ KeyLoop(r)
        \/ ReturnKeys(r) \/ Finally(r) \/ Respond(r) \/ Wait(r)

Next == \E r \in Reqs : Step(r)

Spec == Init /\ [][Next]_vars
SpecConc == InitConc /\ [][Next]_vars

\* every request thread keeps being scheduled and time passes
Fairness == \A r \in Reqs : WF_vars(Step(r))
SpecLive == Init /\ [][Next]_vars /\ Fairness

(* ------------------------------ properties ----------------------------- *)
Invoked(r, op) == \E k \in 1..Len(calls[r]) : calls[r][k] = op
Responded(r) == resp[r] # NoResponse
FailureSteps == {"metadata", "pssh", "challenge", "license", "parse", "enumerate"}
IncompleteMsg == "Invalid response: Missing PSSH or license URL"
IsIncompleteReply(reply) ==
    reply.json /\ (reply.pssh \in {"None", ""} \/ reply.wvlicence \in {"None", ""})

TypeOK ==
    /\ fileState \in FileStates
    /\ clients \subseteq Reqs
    /\ cdmKeys \in SeqsUpTo(KeyEntries, MaxKeys)
    /\ silentPeers \subseteq Peers /\ flaky \subseteq CdmCalls
    /\ \A r \in Reqs :
         /\ pc[r] \in {"start", "isfile", "load", "from_device", "open", "fetch", "pssh",
                       "challenge", "post", "parse", "get_keys", "loop", "finally",
                       "return", "done"}
         /\ sess[r] \in {"none", "Opened", "ChallengeIssued", "LicenseParsed", "Closed"}
         /\ closeRes[r] \in {"none", "ok", "failed"}
         /\ fault[r] \in {"none", "id", "isfile", "device_load", "from_device", "open"}
                            \cup FailureSteps
         /\ loc[r].i \in 0..(MaxKeys + 1)
         /\ waited[r] \in 0..TIMEOUT
         /\ resp[r].status \in {0, 200, 400, 500}

\* C1: in a request whose cdm.open() succeeded, whatever happens afterwards
\* (success, or a failure of the metadata call, of the challenge, of the
\* license exchange, of the license parsing, of the key enumeration), close
\* is invoked exactly once, and that before the response is returned: never
\* twice, and once at the latest when the handler is about to return.
C1_CloseOnceBeforeResponse ==
    \A r \in Reqs :
        loc[r].has_session_id =>
            /\ Count(calls[r], "close") <= 1
            /\ (pc[r] \in {"return", "done"} \/ Responded(r)) =>
                   /\ Count(calls[r], "close") = 1
                   /\ calls[r][Len(calls[r])] = "close"
                   /\ fault[r] \in FailureSteps \cup {"none"}
C1_Witness ==
    /\ pc[1] = "done" /\ loc[1].has_session_id /\ fault[1] = "license"
    /\ Count(calls[1], "close") = 1 /\ resp[1].status = 500

\* C2: a request whose id parameter is missing or empty is answered with
\* the 400 client-input error, and it performs no CDM operation (no device
\* load, no open, no close) and no network call, with or without a
\* provisioning file.
C2_MissingIdRejected ==
    \A r \in Reqs :
        (pc[r] # "start" /\ loc[r].id_param \in {"None", ""}) =>
            /\ pc[r] = "done"
            /\ resp[r].status = 400 /\ ~resp[r].hasKeys /\ resp[r].error # ""
            /\ calls[r] = <<>>
            /\ sess[r] = "none" /\ ~loc[r].has_cdm /\ ~loc[r].has_session_id
C2_Witness ==
    /\ pc[1] = "done" /\ loc[1].id_param = "" /\ fileState = "ok"
    /\ resp[1].status = 400 /\ calls[1] = <<>>

\* C3: the key list of a successful response is the CDM's key sequence with
\* the SIGNING entries removed: same length as the non-SIGNING entries, the
\* same entries in the same order, no SIGNING entry.
C3_SigningFiltered ==
    \A r \in Reqs :
        resp[r].hasKeys =>
            LET kept == SelectSeq(cdmKeys, LAMBDA e : e.type # "SIGNING")
                keys == resp[r].keys
            IN /\ Len(keys) = Len(kept)
               /\ \A k \in 1..Len(kept) :
                     /\ keys[k].type = kept[k].type
                     /\ keys[k].type # "SIGNING"
                     /\ keys[k].kid = KidHex(kept[k].kid)
                     /\ keys[k].key = KeyHex(kept[k].key)
C3_Witness ==
    /\ resp[1].hasKeys /\ Len(cdmKeys) = 2 /\ Len(resp[1].keys) = 1
    /\ cdmKeys[1].type = "SIGNING" /\ cdmKeys[2].type = "CONTENT"

LowerHexChars == {HexDigits[k] : k \in 1..16}
IsLowerHexEven(s) == Len(s) % 2 = 0 /\ \A k \in 1..Len(s) : s[k] \in LowerHexChars

\* C4: in a successful response the kid and the key of every entry are
\* lowercase hexadecimal strings of even length without "-", the CDM having
\* supplied the field as bytes or as a hexadecimal string with dashes.
C4_LowercaseHexNoDash ==
    \A r \in Reqs :
        resp[r].hasKeys =>
            \A k \in 1..Len(resp[r].keys) :
                /\ IsLowerHexEven(resp[r].keys[k].kid)
                /\ IsLowerHexEven(resp[r].keys[k].key)

\* C5: no response carries a partial key set: a response with keys belongs
\* to a pass without failure and has one entry per non-SIGNING key of the
\* CDM; every other response is an error without keys, also when the key
\* enumeration failed after some entries had been processed.
C5_NoPartialKeySet ==
    \A r \in Reqs :
        Responded(r) =>
            IF resp[r].hasKeys
            THEN /\ fault[r] = "none"
                 /\ loc[r].i = Len(cdmKeys) + 1
                 /\ Len(resp[r].keys)
                      = Cardinality({k \in 1..Len(cdmKeys) : cdmKeys[k].type # "SIGNING"})
            ELSE /\ fault[r] # "none"
                 /\ resp[r].keys = <<>> /\ resp[r].error # ""
C5_Witness ==
    /\ pc[1] = "done" /\ fault[1] = "enumerate" /\ loc[1].keys # <<>>
    /\ ~resp[1].hasKeys /\ resp[1].status = 500

\* C6: a metadata body whose pssh or license URL is missing or empty makes
\* the request fail with the incomplete-record error; generate_challenge is
\* never invoked and nothing is posted to a license server in that request.
C6_IncompleteRecordRejected ==
    \A r \in Reqs :
        IsIncompleteReply(loc[r].response) =>
            /\ pc[r] \in {"finally", "return", "done"}
            /\ loc[r].ret = ErrorResponse(IncompleteMsg, 500)
            /\ pc[r] = "done" => resp[r] = ErrorResponse(IncompleteMsg, 500)
            /\ ~Invoked(r, "get_license_challenge")
            /\ ~Invoked(r, "license_post")
C6_Witness ==
    /\ pc[1] = "done" /\ loc[1].response.json
    /\ loc[1].response.pssh = "AAAAIHBzc2g=" /\ loc[1].response.wvlicence = "None"
    /\ resp[1].error = IncompleteMsg

\* C7 as stated: when the incomplete record is rejected, no CDM session has
\* been opened in that request.
C7_NoSessionAtRejection ==
    \A r \in Reqs :
        (pc[r] = "finally" /\ loc[r].ret.error = IncompleteMsg) =>
            /\ ~Invoked(r, "open")
            /\ sess[r] = "none"

\* C7 amended: an incomplete record is rejected before any session work
\* other than the open: when it is rejected (with the incomplete-record
\* error) the session of the request has been opened and nothing but open
\* has been invoked on it, and afterwards only its close follows.
C7_RejectedRightAfterOpen ==
    \A r \in Reqs :
        IsIncompleteReply(loc[r].response) =>
            /\ pc[r] = "finally" =>
                   /\ loc[r].ret.error = IncompleteMsg
                   /\ sess[r] = "Opened"
                   /\ calls[r] = <<"device_load", "from_device", "open", "metadata_get">>
            /\ pc[r] \in {"return", "done"} =>
                   /\ sess[r] \in {"Opened", "Closed"}
                   /\ calls[r] = <<"device_load", "from_device", "open", "metadata_get",
                                   "close">>
C7_Witness ==
    /\ pc[1] = "finally" /\ loc[1].ret.error = IncompleteMsg
    /\ loc[1].response.pssh = "" /\ sess[1] = "Opened" /\ Invoked(1, "open")

\* C8: with the provisioning file absent or not loadable, a request with an
\* id ends with a 500 configuration error, and it opens no CDM session,
\* invokes no close and makes no metadata or license call.
C8_ConfigErrorNoSession ==
    \A r \in Reqs :
        (fileState # "ok" /\ loc[r].id_param = "42") =>
            /\ sess[r] = "none"
            /\ \A op \in {"from_device", "open", "close", "metadata_get", "license_post"} :
                  ~Invoked(r, op)
            /\ pc[r] = "done" =>
                  /\ resp[r].status = 500 /\ ~resp[r].hasKeys
                  /\ resp[r].error = (IF fileState = "absent"
                                      THEN "Provisioning file not found"
                                      ELSE "Failed to load device file: invalid device")
C8_Witness ==
    /\ pc[1] = "done" /\ fileState = "malformed" /\ resp[1].status = 500
    /\ calls[1] = <<"device_load">>

\* C9: a failing close does not change the result: the response that the
\* try block produced (key set or error) is the one that is returned, for
\* a close that fails as for one that succeeds.
C9_CloseFailureIgnored ==
    [][\A r \in Reqs :
          /\ (pc[r] = "finally" /\ pc'[r] = "return") => loc'[r].ret = loc[r].ret
          /\ (pc[r] = "return" /\ pc'[r] = "done") => resp'[r] = loc[r].ret]_vars
C9_Witness ==
    /\ pc[1] = "done" /\ closeRes[1] = "failed" /\ resp[1].hasKeys
    /\ resp[1].status = 200 /\ resp[1].keys # <<>>

\* C10: the status follows the outcome class: 400 exactly for a missing or
\* empty id, 500 for every configuration, CDM, metadata or license
\* transport failure, 200 with a keys body exactly when steps 1 to 8 all
\* succeeded.
C10_StatusByOutcome ==
    \A r \in Reqs :
        pc[r] = "done" =>
            /\ resp[r].status \in {200, 400, 500}
            /\ resp[r].status = 400 <=> loc[r].id_param \in {"None", ""}
            /\ fault[r] \in ({"isfile", "device_load", "from_device", "open"} \cup FailureSteps)
                  => (resp[r].status = 500 /\ ~resp[r].hasKeys)
            /\ (resp[r].status = 200 /\ resp[r].hasKeys) <=> fault[r] = "none"
            /\ resp[r].status = 200 => resp[r].hasKeys
C10_Witness ==
    /\ pc[1] = "done" /\ fault[1] = "metadata" /\ loc[1].response.json
    /\ resp[1].status = 500 /\ resp[1].error = IncompleteMsg

\* C11: every request that entered the handler eventually gets its
\* response, and only one: a metadata or license call to a peer that never
\* answers ends at the timeout as a network failure of that request, with
\* the session closed, and a response once returned is never replaced.
C11_EventuallyResponds ==
    /\ \A r \in Reqs : (pc[r] # "start") ~> (pc[r] = "done" /\ Responded(r))
    /\ [][\A r \in Reqs : Responded(r) => resp'[r] = resp[r]]_vars
    /\ [](\A r \in Reqs :
            (pc[r] = "done" /\ waited[r] > 0) =>
                /\ waited[r] = TIMEOUT
                /\ resp[r] = ErrorResponse("Network request failed", 500)
                /\ Count(calls[r], "close") = 1)
C11_Witness ==
    /\ pc[1] = "done" /\ silentPeers = {"license"} /\ waited[1] = TIMEOUT
    /\ fault[1] = "license" /\ Invoked(1, "close") /\ resp[1].status = 500

CdmOps == {"open", "get_license_challenge", "parse_license", "get_keys", "close"}

\* C12: under every interleaving nothing is shared between requests: a Cdm
\* object is used only by the request that created it, a session handle
\* only by the request whose open returned it and on that request's Cdm
\* object, the challenge a request posts is one its own session produced,
\* and the license it parses answers the challenge it posted itself.
C12_NothingShared ==
    \A u \in uses : \A v \in uses :
        /\ (v.op = "from_device" /\ u.cdm = v.cdm /\ u.cdm # 0) => u.by = v.by
        /\ (v.op = "open" /\ v.sid # 0 /\ u.sid = v.sid) => (u.by = v.by /\ u.cdm = v.cdm)
        /\ (u.op \in CdmOps) => (u.cdm # 0 /\ (u.op = "open" \/ u.sid # 0))
        /\ (u.op = "license_post") =>
              /\ u.data # 0
              /\ (v.op = "get_license_challenge" /\ v.data = u.data) => v.by = u.by
        /\ (u.op = "parse_license") =>
              /\ u.data # 0
              /\ (v.op = "license_post" /\ v.data = u.data) => v.by = u.by
C12_Witness ==
    /\ pc[1] = "parse" /\ pc[2] = "get_keys"
    /\ sess[1] = "ChallengeIssued" /\ sess[2] = "LicenseParsed"
    /\ \E u \in uses : u.op = "parse_license" /\ u.by = 2 /\ u.data = 2
    /\ \E u \in uses : u.op = "license_post" /\ u.by = 1 /\ u.data = 1

CdmFaults == {"from_device", "open", "challenge", "parse", "enumerate"}

\* C13: with the same metadata reply, the same kind of license reply and a
\* CDM that works and returns a fixed key list, identical requests get identical
\* responses, whether they run one after the other or interleaved; nothing
\* an earlier request did changes the response of a later one.
C13_Deterministic ==
    \A r1 \in Reqs : \A r2 \in Reqs :
        (/\ pc[r1] = "done" /\ pc[r2] = "done"
         /\ loc[r1].id_param = loc[r2].id_param
         /\ loc[r1].response = loc[r2].response
         /\ (fault[r1] = "license") = (fault[r2] = "license")
         /\ fault[r1] \notin CdmFaults /\ fault[r2] \notin CdmFaults)
        => resp[r1] = resp[r2]
C13_Witness ==
    /\ pc[1] = "done" /\ pc[2] = "done" /\ resp[1].hasKeys /\ resp[2].hasKeys
    /\ resp[1].keys # <<>> /\ resp[1] = resp[2]

\* C14: no step is retried: in one request the metadata call, open,
\* get_license_challenge, the license post and parse_license are each
\* invoked at most once, also when that step or a later one fails.
C14_NoRetry ==
    \A r \in Reqs :
        \A op \in {"metadata_get", "open", "get_license_challenge", "license_post",
                   "parse_license"} :
            Count(calls[r], op) <= 1
C14_Witness ==
    /\ pc[1] = "done" /\ fault[1] = "parse"
    /\ calls[1] = <<"device_load", "from_device", "open", "metadata_get",
                    "get_license_challenge", "license_post", "parse_license", "close">>

\* C15: the provisioning file is read once and the loaded identity is
\* reused: over all requests that reach the identity step, Device.load is
\* called at most once.
C15_DeviceLoadedOnce ==
    Cardinality({r \in Reqs : Invoked(r, "device_load")}) <= 1

SecretSteps == {"challenge", "license", "parse", "enumerate"}

C17_LinearSession ==
    [][\A r \in Reqs :
          calls'[r] # calls[r] =>
              LET op == calls'[r][Len(calls'[r])]
              IN /\ ~Invoked(r, "close")
                 /\ op \in {"get_license_challenge", "parse_license", "get_keys", "close"}
                       => (loc[r].session_id # 0 /\ sess[loc[r].session_id] # "Closed")
                 /\ op = "get_license_challenge" => sess[loc[r].session_id] = "Opened"
                 /\ op = "parse_license" => sess[loc[r].session_id] = "ChallengeIssued"
                 /\ op = "get_keys" => sess[loc[r].session_id] = "LicenseParsed"]_vars
C17_Witness ==
    /\ pc[1] = "done" /\ resp[1].hasKeys /\ sess[1] = "Closed" /\ closeRes[1] = "ok"
    /\ Invoked(1, "get_keys")

MetadataNetworkFailure(r) ==
    fault[r] = "metadata" /\ (loc[r].response.net = "unreachable" \/ loc[r].response.status # 200)
LicenseFailure(r) == fault[r] = "license"
BadRecord(r) ==
    fault[r] = "metadata" /\ loc[r].response.net = "ok" /\ loc[r].response.status = 200

\* C18: the caller can tell the error classes apart: the response to a
\* metadata failure (unreachable or bad status), the response to a license
\* exchange failure (unreachable or bad status) and the response to an
\* incomplete or malformed metadata record differ pairwise.
C18_ClassesDistinguishable ==
    \A r1 \in Reqs : \A r2 \in Reqs :
        (/\ pc[r1] = "done" /\ pc[r2] = "done"
         /\ \/ MetadataNetworkFailure(r1) /\ LicenseFailure(r2)
            \/ MetadataNetworkFailure(r1) /\ BadRecord(r2)
            \/ LicenseFailure(r1) /\ BadRecord(r2))
        => resp[r1] # resp[r2]

\* C19: the pass is fail-fast: once a step of a request has failed, the
\* request makes no further call except the one close of its session, the
\* failure recorded stays the same, and control only runs through the
\* finally block to the return.
C19_FailFast ==
    [][\A r \in Reqs :
          fault[r] # "none" =>
              /\ fault'[r] = fault[r]
              /\ pc'[r] \in {"finally", "return", "done"}
              /\ \/ calls'[r] = calls[r]
                 \/ /\ calls'[r] = Append(calls[r], "close")
                    /\ ~Invoked(r, "close")
                    /\ loc[r].has_session_id
              /\ sess'[r] \in {sess[r], "Closed"}]_vars
C19_Witness ==
    /\ pc[1] = "done" /\ fault[1] = "challenge"
    /\ calls[1] = <<"device_load", "from_device", "open", "metadata_get",
                    "get_license_challenge", "close">>

\* C20: when Cdm.from_device or cdm.open fails there is no session handle:
\* close is not invoked and the request ends with a 500 error; close is
\* only ever invoked with a handle that a successful open returned.
C20_NoCloseWithoutHandle ==
    /\ \A r \in Reqs :
          fault[r] \in {"from_device", "open"} =>
              /\ ~loc[r].has_session_id /\ loc[r].session_id = 0 /\ sess[r] = "none"
              /\ ~Invoked(r, "close")
              /\ pc[r] = "done" => (resp[r].status = 500 /\ ~resp[r].hasKeys)
    /\ \A u \in uses :
          u.op = "close" =>
              /\ u.sid # 0
              /\ \E v \in uses : v.op = "open" /\ v.sid = u.sid /\ v.by = u.by
C20_Witness ==
    /\ pc[1] = "done" /\ fault[1] = "open" /\ loc[1].has_cdm /\ ~loc[1].has_session_id
    /\ calls[1] = <<"device_load", "from_device", "open">> /\ resp[1].status = 500
====
